---- MODULE Spec2Model ----
(***************************************************************************)
(* Download orchestration of movizone: the DownloadManager of index.ts     *)
(* (state records, the durable state files, the worker handles) and the    *)
(* worker process download.mjs that reports over its stdout pipe and       *)
(* mirrors its state into the same state file.                             *)
(***************************************************************************)
EXTENDS Integers, Sequences, FiniteSets, TLC

\* ------------------------------------------------------------------ bounds
\* lines a worker's stdout pipe holds before the manager reads them: with
\* one transfer, and with two transfers side by side
MaxPipe == 2
MaxPipePair == 1
\* file operations (Bun.write, unlink) issued and not yet completed
MaxPending == 2
\* bytes of worker output followed through the line reader
MaxStream == 4
\* longest word given to the search helpers
MaxWord == 3

\* ------------------------------------------------------- program constants
ONE_DAY == 86400000

\* ---------------------------------------------------------- value domains
\* an optional string that is undefined or null
Unset == "<unset>"
\* the id of a record that has none (state file written without one)
NoId == <<>>
\* Date.now() when the earlier sessions started their downloads is 1; at the
\* start of this session the inherited records are 1 ms old, exactly ONE_DAY
\* old, or older than ONE_DAY
SessionTimes == {2, 1 + ONE_DAY, 2 + ONE_DAY}
\* the transfers the caller starts in one session, in order: one transfer
\* followed in full detail, or two transfers running side by side
CallerPlan == <<"Sample">>
CallerPlanPair == <<"Sample", "Other">>
Qualities == {"720p"}
Magnets == {"X", ""}
\* DOWNLOAD_DIR, the directory startDownload passes to every worker
DOWNLOAD_DIR == "/dl"
Paths == {"/tmp/s.mp4"}
WorkerErrors == {"tracker failure"}
Sizes == {1000}
ProgressSamples ==
  { [progress |-> 50, downloaded |-> 500, total |-> 1000, speed |-> 100,
     eta |-> 5000, peers |-> 3],
    [progress |-> 80, downloaded |-> 800, total |-> 1000, speed |-> 50,
     eta |-> 4000, peers |-> 1] }

ActiveStatus == {"connecting", "downloading"}
TerminalStatus == {"done", "error", "timeout"}

\* ------------------------------------------------- worker protocol messages
NoProgress ==
  [progress |-> 0, downloaded |-> 0, total |-> 0, speed |-> 0, eta |-> 0, peers |-> 0]

Msg(t, sz, pr, pa, me) ==
  [type |-> t, size |-> sz, prog |-> pr, path |-> pa, message |-> me]

MetaMsg(sz) == Msg("meta", sz, NoProgress, Unset, Unset)
ProgressMsg(p) == Msg("progress", 0, p, Unset, Unset)
DoneMsg(pa) == Msg("done", 0, NoProgress, pa, Unset)
ErrorMsg(me) == Msg("error", 0, NoProgress, Unset, me)
TimeoutMsg == Msg("timeout", 0, NoProgress, Unset, Unset)

TerminalMsgTypes == {"done", "error", "timeout"}

\* ---------------------------------------------------------- state records
IsTerminal(s) == s.status \in TerminalStatus
IsActive(s) == s.status \in ActiveStatus

\* the record startDownload creates (before the worker is spawned)
InitialState(id, magnet, movieTitle, quality, size, t) ==
  [id |-> id, pid |-> 0, magnet |-> magnet, movieTitle |-> movieTitle,
   quality |-> quality, status |-> "connecting", progress |-> 0,
   downloaded |-> 0, total |-> size, speed |-> 0, eta |-> 0, peers |-> 0,
   filePath |-> Unset, error |-> Unset, startedAt |-> t]

\* (a fold whose meta branch sets the size and leaves the status)
FoldMsgMetaKeepsStatus(s, m) ==
  CASE m.type = "meta" -> [s EXCEPT !.total = m.size]
    [] m.type = "progress" ->
         [s EXCEPT !.status = "downloading", !.progress = m.prog.progress,
                   !.downloaded = m.prog.downloaded, !.total = m.prog.total,
                   !.speed = m.prog.speed, !.eta = m.prog.eta,
                   !.peers = m.prog.peers]
    [] m.type = "done" ->
         [s EXCEPT !.status = "done", !.progress = 100, !.filePath = m.path]
    [] m.type = "error" ->
         [s EXCEPT !.status = "error", !.error = m.message]
    [] m.type = "timeout" ->
         [s EXCEPT !.status = "timeout", !.error = "Could not connect to peers"]
    [] OTHER -> s

\* (a fold whose done branch leaves the file path)
FoldMsgDoneNoPath(s, m) ==
  CASE m.type = "meta" ->
         [s EXCEPT !.total = m.size, !.status = "downloading"]
    [] m.type = "progress" ->
         [s EXCEPT !.status = "downloading", !.progress = m.prog.progress,
                   !.downloaded = m.prog.downloaded, !.total = m.prog.total,
                   !.speed = m.prog.speed, !.eta = m.prog.eta,
                   !.peers = m.prog.peers]
    [] m.type = "done" -> [s EXCEPT !.status = "done", !.progress = 100]
    [] m.type = "error" ->
         [s EXCEPT !.status = "error", !.error = m.message]
    [] m.type = "timeout" ->
         [s EXCEPT !.status = "timeout", !.error = "Could not connect to peers"]
    [] OTHER -> s

\* the 'data' handler's body for one parsed line
FoldMsg(s, m) ==
  CASE m.type = "meta" ->
         [s EXCEPT !.total = m.size, !.status = "downloading"]
    [] m.type = "progress" ->
         [s EXCEPT !.status = "downloading", !.progress = m.prog.progress,
                   !.downloaded = m.prog.downloaded, !.total = m.prog.total,
                   !.speed = m.prog.speed, !.eta = m.prog.eta,
                   !.peers = m.prog.peers]
    [] m.type = "done" ->
         [s EXCEPT !.status = "done", !.progress = 100, !.filePath = m.path]
    [] m.type = "error" ->
         [s EXCEPT !.status = "error", !.error = m.message]
    [] m.type = "timeout" ->
         [s EXCEPT !.status = "timeout", !.error = "Could not connect to peers"]
    [] OTHER -> s

RECURSIVE FoldLines(_, _)
FoldLines(s, lines) ==
  IF lines = <<>> THEN s
  ELSE FoldLines(FoldMsg(s, Head(lines)), Tail(lines))

\* what the liveness check and the close handler write
MarkEnded(s) ==
  [s EXCEPT !.status = "error", !.error = "Process ended unexpectedly"]

MarkCancelled(s) ==
  [s EXCEPT !.status = "error", !.error = "Cancelled"]

\* ------------------------------------------------------------------ state
VARIABLES
  pc,         \* main(): "boot" before loadDownloads() has run, "run" after
  now,        \* Date.now() of this session
  idCounter,  \* DownloadManager.idCounter
  mapKeys,    \* keys of DownloadManager.downloads
  stateObj,   \* the DownloadState objects: the map's values, which the
              \* readOutput closures of this session's workers also hold
  processes,  \* keys of DownloadManager.processes
  disk,       \* STATE_DIR: state file of slot id -> the record it holds
  pendingIO,  \* Bun.write / unlink calls issued and not yet completed
  spawned,    \* ids whose worker this session spawned (handlers attached)
  closed,     \* ids whose child 'close' event has been handled
  pipe,       \* stdout pipe of each worker spawned by this session
  wphase,     \* worker process: "boot", "connecting", "ready", "exited"
  wstate,     \* the worker's own state object (download.mjs)
  sigterm,    \* pids with a SIGTERM sent and not yet acted on
  exitCode,   \* how each worker process ended, Running while it has not
  stdout,     \* the bytes one worker wrote on its stdout, followed byte by byte
  reads,      \* sizes of the chunks of stdout the 'data' events delivered
  buffer,     \* readOutput: buffer
  folded,     \* the messages the 'data' handler parsed, in the order handled
  wordA,      \* fuzzy search: the word given (levenshtein's a)
  wordB,      \* fuzzy search: the word compared with (levenshtein's b)
  dist,       \* what levenshtein(wordA, wordB) returned, NotRun before the call
  corrections \* what generateTypoCorrections(wordA) returned, <<NotRun>> before

\* the stream followed byte by byte
reader == <<stdout, reads, buffer, folded>>
\* the arguments and results of the search helpers
search == <<wordA, wordB, dist, corrections>>

vars == <<pc, now, idCounter, mapKeys, stateObj, processes, disk, pendingIO,
          spawned, closed, pipe, wphase, wstate, sigterm, exitCode, stdout,
          reads, buffer, folded, wordA, wordB, dist, corrections>>

\* DownloadManager.downloads as a map
downloads == [i \in mapKeys |-> stateObj[i]]

\* getDownloads() / getActive()
getDownloads == {stateObj[i] : i \in mapKeys}
\* (a filter that leaves out finished transfers only)
getActiveNotDone == {d \in getDownloads : d.status # "done"}
getActive == {d \in getDownloads : d.status \in {"connecting", "downloading"}}

\* ---------------------------------------------------------- processes, ids
\* pid the OS gives the worker of slot id
PidOf(id) == (IF id[1] = 1 THEN 10 ELSE 20) + id[2]

\* ids of the records earlier sessions started: `${Date.now()}-${counter}`
OldIds == {<<1, 1>>, <<1, 2>>}
\* (an id made of the counter alone)
NewIdCounterOnly(t, c) == <<1, c>>
\* startDownload: `${Date.now()}-${++this.idCounter}`
NewId(t, c) == <<t, c>>

Workers == DOMAIN wphase
LivePids == {PidOf(i) : i \in {w \in Workers : wphase[w] # "exited"}}

\* process.kill(pid, 0) does not throw
ProbeAlive(pid) == pid \in LivePids

\* process.kill(pid) / child.kill(): SIGTERM to a live process, ESRCH
\* (caught) or nothing otherwise
Signal(pid) == IF pid \in LivePids THEN sigterm \cup {pid} ELSE sigterm

\* ------------------------------------------------------------ state files
WriteOp(id, s) == [kind |-> "write", slot |-> id, data |-> s]
\* a state object with nothing in it yet
NoState == InitialState(NoId, Unset, Unset, Unset, 0, 0)
UnlinkOp(id) == [kind |-> "unlink", slot |-> id, data |-> NoState]

\* JSON.stringify(state): a property that is undefined is left out
FieldNames ==
  {"id", "pid", "magnet", "movieTitle", "quality", "status", "progress",
   "downloaded", "total", "speed", "eta", "peers", "filePath", "error",
   "startedAt"}
\* the properties a state object may lack, and what stands for a lacking one
Optional ==
  {"id", "pid", "magnet", "movieTitle", "quality", "filePath", "error", "startedAt"}
AbsentValue(f) ==
  CASE f = "id" -> NoId
    [] f \in {"magnet", "movieTitle", "quality", "filePath", "error"} -> Unset
    [] OTHER -> 0
Absent(s, f) == f \in Optional /\ s[f] = AbsentValue(f)
\* (a serialisation that leaves startedAt out)
JSONstringifyNoStartedAt(s) ==
  [f \in {g \in FieldNames \ {"startedAt"} : ~Absent(s, g)} |-> s[f]]
JSONstringify(s) == [f \in {g \in FieldNames : ~Absent(s, g)} |-> s[f]]
\* Bun.file(path).json() / JSON.parse(readFileSync(path)), read as a state
JSONparse(text) ==
  [f \in FieldNames |-> IF f \in DOMAIN text THEN text[f] ELSE AbsentValue(f)]
\* what a reader finds in a file that holds the serialisation of s
FileOf(s) == JSONparse(JSONstringify(s))

\* a file whose content does not parse (a write that stopped half-way): the
\* reader's JSON parser throws
Garbage == [NoState EXCEPT !.status = "<unparseable>"]
\* the file of slot id is there and parses
Readable(d, id) == id \in DOMAIN d /\ d[id] # Garbage

\* a slot is kept as the state a reader parses out of its file
FilePut(d, id, s) == (id :> FileOf(s)) @@ d
FileRemove(d, id) == [k \in (DOMAIN d) \ {id} |-> d[k]]

\* writeState(state): the content is serialised at the call, written later
writeState(pend, s) == pend \cup {WriteOp(s.id, s)}
\* deleteStateFile(id)
deleteStateFile(pend, id) == pend \cup {UnlinkOp(id)}

\* a pending file operation completes
IoComplete(op) ==
  /\ op \in pendingIO
  /\ pendingIO' = pendingIO \ {op}
  /\ disk' = IF op.kind = "write" THEN FilePut(disk, op.slot, op.data)
             ELSE FileRemove(disk, op.slot)
  /\ UNCHANGED reader
  /\ UNCHANGED search
  /\ UNCHANGED exitCode
  /\ UNCHANGED <<pc, now, idCounter, mapKeys, stateObj, processes, spawned,
                 closed, pipe, wphase, wstate, sigterm>>

\* ------------------------------------------------------- the worker process
\* download.mjs: the state object built at start-up from the state file
WorkerInitialState(existing, pid, magnet) ==
  [existing EXCEPT !.pid = pid, !.magnet = magnet, !.status = "connecting",
                   !.progress = 0, !.downloaded = 0, !.total = 0, !.speed = 0,
                   !.eta = 0, !.peers = 0, !.filePath = Unset, !.error = Unset]

\* download.mjs send(): the mirror of the message into the state object
WorkerMirror(s, m) ==
  CASE m.type = "meta" ->
         [s EXCEPT !.total = m.size, !.status = "downloading"]
    [] m.type = "progress" ->
         [s EXCEPT !.status = "downloading", !.progress = m.prog.progress,
                   !.downloaded = m.prog.downloaded, !.total = m.prog.total,
                   !.speed = m.prog.speed, !.eta = m.prog.eta,
                   !.peers = m.prog.peers]
    [] m.type = "done" ->
         [s EXCEPT !.status = "done", !.progress = 100, !.filePath = m.path]
    [] m.type = "error" ->
         [s EXCEPT !.status = "error", !.error = m.message]
    [] m.type = "timeout" ->
         [s EXCEPT !.status = "timeout", !.error = "Could not connect to peers"]
    [] OTHER -> s

\* the messages the worker's event handlers send in each phase, and the
\* phase the worker is in afterwards (it exits after a terminal message)
\* (a worker whose 30 s timer also fires after the metadata arrived)
WorkerSendsTimerUnguarded(phase) ==
  IF phase = "connecting"
  THEN {MetaMsg(sz) : sz \in Sizes} \cup {TimeoutMsg}
         \cup {ErrorMsg(e) : e \in WorkerErrors}
  ELSE IF phase = "ready"
  THEN {ProgressMsg(p) : p \in ProgressSamples} \cup {DoneMsg(pa) : pa \in Paths}
         \cup {ErrorMsg(e) : e \in WorkerErrors} \cup {TimeoutMsg}
  ELSE {}
WorkerSends(phase) ==
  IF phase = "connecting"
  THEN {MetaMsg(sz) : sz \in Sizes} \cup {TimeoutMsg}
         \cup {ErrorMsg(e) : e \in WorkerErrors}
  ELSE IF phase = "ready"
  THEN {ProgressMsg(p) : p \in ProgressSamples} \cup {DoneMsg(pa) : pa \in Paths}
         \cup {ErrorMsg(e) : e \in WorkerErrors}
  ELSE {}

\* (a worker that goes on after a terminal message)
PhaseAfterGoesOn(phase, m) == IF m.type = "meta" THEN "ready" ELSE phase
PhaseAfter(phase, m) ==
  IF m.type \in TerminalMsgTypes THEN "exited"
  ELSE IF m.type = "meta" THEN "ready" ELSE phase

\* what the start-up read of the state file can give: the record the file
\* holds; nothing when the file is missing or does not parse, which is also
\* what it finds while a write of the manager to that file is under way
\* (Bun.write truncates the file and then writes it)
StartupReads(id) ==
  {IF Readable(disk, id) THEN disk[id] ELSE NoState}
    \cup {NoState : op \in {o \in pendingIO : o.kind = "write" /\ o.slot = id}}

\* how a worker process ended: not yet, with the code given to process.exit,
\* by a signal, or in an earlier session (or never started) so that no code
\* is known
Running == -1
Killed == 143
NoCode == -2

\* if (!magnet || !downloadDir): an empty string counts as missing
ArgsOk(magnet, downloadDir) == magnet # "" /\ downloadDir # ""

\* (a worker that exits with 0 whatever it reported)
ExitCodeAlwaysZero(m) == 0
\* the code given to process.exit after the terminal message m
ExitCodeOf(m) == IF m.type = "error" THEN 1 ELSE 0

\* the worker starts: checks its arguments, reads the state file, builds its
\* state, writes it
WorkerStart(id) ==
  /\ id \in Workers
  /\ wphase[id] = "boot"
  /\ IF ArgsOk(wstate[id].magnet, DOWNLOAD_DIR)
     THEN /\ \E existing \in StartupReads(id) :
               LET s == WorkerInitialState(existing, PidOf(id), wstate[id].magnet)
               IN /\ wstate' = [wstate EXCEPT ![id] = s]
                  /\ disk' = FilePut(disk, id, s)
          /\ wphase' = [wphase EXCEPT ![id] = "connecting"]
          /\ UNCHANGED <<exitCode, sigterm>>
     ELSE /\ wphase' = [wphase EXCEPT ![id] = "exited"]
          /\ exitCode' = [exitCode EXCEPT ![id] = 1]
          /\ wstate' = [wstate EXCEPT ![id] = NoState]
          /\ sigterm' = sigterm \ {PidOf(id)}
          /\ UNCHANGED disk
  /\ UNCHANGED reader
  /\ UNCHANGED search
  /\ UNCHANGED <<pc, now, idCounter, mapKeys, stateObj, processes, pendingIO,
                 spawned, closed, pipe>>

\* send(obj): one line on stdout, the mirror, the state file; exit after a
\* terminal message
WorkerSend(id, m, cap) ==
  /\ id \in Workers
  /\ m \in WorkerSends(wphase[id])
  /\ id \in spawned => Len(pipe[id]) < cap
  /\ pipe' = IF id \in spawned THEN [pipe EXCEPT ![id] = Append(@, m)] ELSE pipe
  /\ wstate' = [wstate EXCEPT ![id] = WorkerMirror(@, m)]
  /\ disk' = FilePut(disk, id, WorkerMirror(wstate[id], m))
  /\ wphase' = [wphase EXCEPT ![id] = PhaseAfter(@, m)]
  /\ sigterm' = IF m.type \in TerminalMsgTypes THEN sigterm \ {PidOf(id)} ELSE sigterm
  /\ exitCode' = IF m.type \in TerminalMsgTypes
                 THEN [exitCode EXCEPT ![id] = ExitCodeOf(m)] ELSE exitCode
  /\ UNCHANGED reader
  /\ UNCHANGED search
  /\ UNCHANGED <<pc, now, idCounter, mapKeys, stateObj, processes, pendingIO,
                 spawned, closed>>

\* the worker process ends without a terminal message: SIGTERM acted on,
\* a crash, a kill from outside
WorkerDie(id) ==
  /\ id \in Workers
  /\ wphase[id] # "exited"
  /\ wphase' = [wphase EXCEPT ![id] = "exited"]
  /\ wstate' = [wstate EXCEPT ![id] = NoState]
  /\ sigterm' = sigterm \ {PidOf(id)}
  /\ exitCode' = [exitCode EXCEPT ![id] = Killed]
  /\ UNCHANGED reader
  /\ UNCHANGED search
  /\ UNCHANGED <<pc, now, idCounter, mapKeys, stateObj, processes, disk,
                 pendingIO, spawned, closed, pipe>>

\* the worker process is killed inside writeFileSync, after the file was
\* truncated and before its content was written
WorkerDieWriting(id) ==
  /\ id \in Workers
  /\ wphase[id] \in {"connecting", "ready"}
  /\ wphase' = [wphase EXCEPT ![id] = "exited"]
  /\ wstate' = [wstate EXCEPT ![id] = NoState]
  /\ sigterm' = sigterm \ {PidOf(id)}
  /\ disk' = FilePut(disk, id, Garbage)
  /\ exitCode' = [exitCode EXCEPT ![id] = Killed]
  /\ UNCHANGED reader
  /\ UNCHANGED search
  /\ UNCHANGED <<pc, now, idCounter, mapKeys, stateObj, processes, pendingIO,
                 spawned, closed, pipe>>

\* ------------------------------------------------------ the DownloadManager
\* the state objects still referenced: by the map, or by the handlers of a
\* worker whose 'close' has not been handled
Reachable(objs, keys, sp, cl) ==
  [i \in (DOMAIN objs) \cap (keys \cup (sp \ cl)) |-> objs[i]]

\* torrentInfo of startDownload: absent, or a torrent with quality and size
TorrentInfos == {[quality |-> q, size |-> sz] : q \in Qualities, sz \in Sizes}

\* loadDownloads(): one state file
\* (a load that an unparseable file anywhere in the store stops)
LoadsFileUnlessGarbage(id) ==
  /\ \A g \in DOMAIN disk : disk[g] # Garbage
  /\ id \in DOMAIN disk
  /\ disk[id].id # NoId
  /\ disk[id].id \notin mapKeys
  /\ ~(IsTerminal(disk[id]) /\ disk[id].startedAt # 0
         /\ now - disk[id].startedAt > ONE_DAY)
\* (a load that does not look whether the map has the id already)
LoadsFileAlsoKnown(id) ==
  /\ Readable(disk, id)
  /\ disk[id].id # NoId
  /\ ~(IsTerminal(disk[id]) /\ disk[id].startedAt # 0
         /\ now - disk[id].startedAt > ONE_DAY)
LoadsFile(id) ==
  /\ Readable(disk, id)
  /\ disk[id].id # NoId
  /\ disk[id].id \notin mapKeys
  /\ ~(IsTerminal(disk[id]) /\ disk[id].startedAt # 0
         /\ now - disk[id].startedAt > ONE_DAY)
\* (a pruning that takes a record of exactly one day too)
PrunesFileFromOneDay(id) ==
  /\ Readable(disk, id)
  /\ disk[id].id # NoId
  /\ disk[id].id \notin mapKeys
  /\ IsTerminal(disk[id]) /\ disk[id].startedAt # 0
  /\ now - disk[id].startedAt >= ONE_DAY
PrunesFile(id) ==
  /\ Readable(disk, id)
  /\ disk[id].id # NoId
  /\ disk[id].id \notin mapKeys
  /\ IsTerminal(disk[id]) /\ disk[id].startedAt # 0
  /\ now - disk[id].startedAt > ONE_DAY
\* (a liveness check that looks at downloading records only)
LoadFoundDeadDownloadingOnly(s) ==
  s.status = "downloading" /\ s.pid # 0 /\ ~ProbeAlive(s.pid)
\* (a liveness check that does not ask for a stored pid)
LoadFoundDeadNoPidTest(s) == ~IsTerminal(s) /\ ~ProbeAlive(s.pid)
LoadFoundDead(s) == ~IsTerminal(s) /\ s.pid # 0 /\ ~ProbeAlive(s.pid)
LoadedState(s) == IF LoadFoundDead(s) THEN MarkEnded(s) ELSE s

\* loadDownloads(): every state file whose id the map does not have yet
loadDownloads ==
  /\ pc' = "run"
  /\ LET loaded == {disk[f].id : f \in {g \in DOMAIN disk : LoadsFile(g)}}
         pruned == {disk[f].id : f \in {g \in DOMAIN disk : PrunesFile(g)}}
         ops == {WriteOp(i, LoadedState(disk[i])) :
                   i \in {j \in loaded : LoadFoundDead(disk[j])}}
                \cup {UnlinkOp(i) : i \in pruned}
     IN /\ Cardinality(pendingIO \cup ops) <= MaxPending
        /\ mapKeys' = mapKeys \cup loaded
        /\ stateObj' = [i \in loaded |-> LoadedState(disk[i])] @@ stateObj
        /\ pendingIO' = pendingIO \cup ops
  /\ UNCHANGED reader
  /\ UNCHANGED search
  /\ UNCHANGED exitCode
  /\ UNCHANGED <<now, idCounter, processes, disk, spawned, closed, pipe,
                 wphase, wstate, sigterm>>

\* what spawn gives as child.pid: the pid of the new process, or undefined
\* when no process could be created
ChildPid(id, spawnOk) == IF spawnOk THEN PidOf(id) ELSE 0

\* startDownload; spawnOk is whether the system could create the process
startDownload(magnet, movieTitle, torrentInfo, spawnOk) ==
  /\ LET id == NewId(now, idCounter + 1)
         s0 == InitialState(id, magnet, movieTitle, torrentInfo.quality,
                            torrentInfo.size, now)
         s1 == [s0 EXCEPT !.pid = ChildPid(id, spawnOk)]
         ops == {WriteOp(id, s0), WriteOp(id, s1)}
     IN /\ Cardinality(pendingIO \cup ops) <= MaxPending
        /\ idCounter' = idCounter + 1
        /\ mapKeys' = mapKeys \cup {id}
        /\ stateObj' = (id :> s1) @@ stateObj
        /\ pendingIO' = pendingIO \cup ops
        /\ processes' = processes \cup {id}
        /\ spawned' = spawned \cup {id}
        /\ pipe' = (id :> <<>>) @@ pipe
        /\ wphase' = (id :> IF spawnOk THEN "boot" ELSE "exited") @@ wphase
        /\ wstate' = (id :> [NoState EXCEPT !.magnet = magnet]) @@ wstate
        /\ exitCode' = (id :> IF spawnOk THEN Running ELSE NoCode) @@ exitCode
  /\ UNCHANGED reader
  /\ UNCHANGED search
  /\ UNCHANGED <<pc, now, disk, closed, sigterm>>

\* readOutput: the 'data' handler, for a chunk holding the next k lines
OnData(id, k) ==
  /\ id \in spawned \ closed
  /\ k \in 1..Len(pipe[id])
  /\ stateObj' = [stateObj EXCEPT ![id] = FoldLines(@, SubSeq(pipe[id], 1, k))]
  /\ pipe' = [pipe EXCEPT ![id] = SubSeq(@, k + 1, Len(@))]
  /\ UNCHANGED reader
  /\ UNCHANGED search
  /\ UNCHANGED exitCode
  /\ UNCHANGED <<pc, now, idCounter, mapKeys, processes, disk, pendingIO,
                 spawned, closed, wphase, wstate, sigterm>>

\* ---- readOutput's 'data' handler on the bytes of the stream
\* the bytes a worker's output is made of here: a progress line is P, a line
\* of a kind the protocol does not have is U, a done line is D followed by
\* the characters of the path; E is a character that UTF-8 encodes in two
\* bytes
LeadByte == "<C3>"
ContByte == "<A9>"
TwoByteChar == "E"
\* U+FFFD, which decoding puts in the place of bytes that are no character
Replacement == "?"
Bytes == {"P", "D", "U", "a", " ", "\n", LeadByte, ContByte}
PathChars == {"a", TwoByteChar, Replacement}
Whitespace == {" "}
ByteStreams == UNION {[1..n -> Bytes] : n \in 0..MaxStream}

\* chunk.toString(): the bytes of one chunk decoded as UTF-8
RECURSIVE toString(_)
toString(bytes) ==
  IF bytes = <<>> THEN <<>>
  ELSE IF Head(bytes) = LeadByte
  THEN IF Len(bytes) >= 2 /\ bytes[2] = ContByte
       THEN <<TwoByteChar>> \o toString(SubSeq(bytes, 3, Len(bytes)))
       ELSE <<Replacement>> \o toString(Tail(bytes))
  ELSE IF Head(bytes) = ContByte
  THEN <<Replacement>> \o toString(Tail(bytes))
  ELSE <<Head(bytes)>> \o toString(Tail(bytes))

\* text.split("\n")
RECURSIVE Split(_)
Split(text) ==
  IF \A i \in 1..Len(text) : text[i] # "\n" THEN <<text>>
  ELSE LET i == CHOOSE j \in 1..Len(text) :
                  text[j] = "\n" /\ \A h \in 1..(j - 1) : text[h] # "\n"
       IN <<SubSeq(text, 1, i - 1)>> \o Split(SubSeq(text, i + 1, Len(text)))

\* line.trim()
RECURSIVE Trim(_)
Trim(line) ==
  IF line # <<>> /\ Head(line) \in Whitespace THEN Trim(Tail(line))
  ELSE IF line # <<>> /\ line[Len(line)] \in Whitespace
  THEN Trim(SubSeq(line, 1, Len(line) - 1))
  ELSE line

\* the path a done line carries
RECURSIVE PathText(_)
PathText(chars) ==
  IF chars = <<>> THEN "/tmp/" ELSE PathText(SubSeq(chars, 1, Len(chars) - 1)) \o chars[Len(chars)]

\* JSON.parse(line) does not throw, and the message it returns
Parses(line) ==
  LET l == Trim(line)
  IN \/ l \in {<<"P">>, <<"U">>}
     \/ Len(l) >= 2 /\ l[1] = "D" /\ \A i \in 2..Len(l) : l[i] \in PathChars
ParseLine(line) ==
  LET l == Trim(line)
  IN IF l = <<"P">> THEN ProgressMsg(CHOOSE p \in ProgressSamples : p.progress = 50)
     ELSE IF l = <<"U">> THEN Msg("unknown", 0, NoProgress, Unset, Unset)
     ELSE DoneMsg(PathText(Tail(l)))

\* (a loop body that gives up the record on a line it cannot parse)
TryFoldOrFail(s, line) == IF Parses(line) THEN FoldMsg(s, ParseLine(line)) ELSE MarkEnded(s)
\* try { msg = JSON.parse(line); ... } catch {}
TryFold(s, line) == IF Parses(line) THEN FoldMsg(s, ParseLine(line)) ELSE s

\* the body of the loop over the lines: blank lines are passed over
HandleLine(s, line) == IF Trim(line) = <<>> THEN s ELSE TryFold(s, line)

RECURSIVE HandleLines(_, _)
HandleLines(s, lines) ==
  IF lines = <<>> THEN s ELSE HandleLines(HandleLine(s, Head(lines)), Tail(lines))

\* the messages the loop parses out of a sequence of lines
RECURSIVE Messages(_)
Messages(lines) ==
  IF lines = <<>> THEN <<>>
  ELSE (IF Trim(Head(lines)) # <<>> /\ Parses(Head(lines))
        THEN <<ParseLine(Head(lines))>> ELSE <<>>) \o Messages(Tail(lines))

RECURSIVE Sum(_)
Sum(ns) == IF ns = <<>> THEN 0 ELSE Head(ns) + Sum(Tail(ns))
\* bytes of stdout the 'data' events have delivered
Delivered == Sum(reads)

\* the 'data' handler, for a chunk of the next n bytes of the stream
OnChunk(id, n) ==
  /\ id \in spawned \ closed
  /\ n \in 1..(Len(stdout) - Delivered)
  /\ LET chunk == SubSeq(stdout, Delivered + 1, Delivered + n)
         lines == Split(buffer \o toString(chunk))
         complete == SubSeq(lines, 1, Len(lines) - 1)
     IN /\ buffer' = lines[Len(lines)]
        /\ stateObj' = [stateObj EXCEPT ![id] = HandleLines(@, complete)]
        /\ folded' = folded \o Messages(complete)
  /\ reads' = Append(reads, n)
  /\ UNCHANGED <<pc, now, idCounter, mapKeys, processes, disk, pendingIO,
                 spawned, closed, pipe, wphase, wstate, sigterm, exitCode,
                 stdout>>
  /\ UNCHANGED search

\* readOutput: the 'close' handler (process ended, stdout drained)
\* (a close handler without the status test)
CloseStateAlways(s) == MarkEnded(s)
CloseState(s) == IF IsActive(s) THEN MarkEnded(s) ELSE s
ClosePending(pend, s) == IF IsActive(s) THEN writeState(pend, MarkEnded(s)) ELSE pend

OnClose(id) ==
  /\ id \in spawned \ closed
  /\ wphase[id] = "exited"
  /\ pipe[id] = <<>>
  /\ Cardinality(ClosePending(pendingIO, stateObj[id])) <= MaxPending
  /\ pendingIO' = ClosePending(pendingIO, stateObj[id])
  /\ closed' = closed \cup {id}
  /\ processes' = processes \ {id}
  /\ stateObj' = Reachable([stateObj EXCEPT ![id] = CloseState(@)], mapKeys,
                           spawned, closed')
  /\ UNCHANGED reader
  /\ UNCHANGED search
  /\ UNCHANGED exitCode
  /\ UNCHANGED <<pc, now, idCounter, mapKeys, disk, spawned, pipe, wphase,
                 wstate, sigterm>>

\* the signal cancelDownload / deleteDownload send for id
KillTarget(id) ==
  IF id \in processes THEN PidOf(id)
  ELSE IF id \in mapKeys THEN stateObj[id].pid ELSE 0

\* (a cancel without the status test)
CancelStateAlways(s) == MarkCancelled(s)
CancelState(s) == IF IsActive(s) THEN MarkCancelled(s) ELSE s
\* (a cancel that does not persist)
CancelPendingNoWrite(pend, s) == pend
CancelPending(pend, s) ==
  IF IsActive(s) THEN writeState(pend, MarkCancelled(s)) ELSE pend

cancelDownload(id) ==
  /\ pc = "run"
  /\ sigterm' = Signal(KillTarget(id))
  /\ processes' = processes \ {id}
  /\ IF id \in mapKeys
     THEN /\ Cardinality(CancelPending(pendingIO, stateObj[id])) <= MaxPending
          /\ stateObj' = [stateObj EXCEPT ![id] = CancelState(@)]
          /\ pendingIO' = CancelPending(pendingIO, stateObj[id])
     ELSE UNCHANGED <<stateObj, pendingIO>>
  /\ UNCHANGED reader
  /\ UNCHANGED search
  /\ UNCHANGED exitCode
  /\ UNCHANGED <<pc, now, idCounter, mapKeys, disk, spawned, closed, pipe,
                 wphase, wstate>>

\* (a clear that forgets the timeout status)
ClearedKeysNoTimeout(keys, objs) == {i \in keys : objs[i].status \in {"done", "error"}}
ClearedKeys(keys, objs) == {i \in keys : IsTerminal(objs[i])}

clearCompleted ==
  /\ pc = "run"
  /\ LET gone == ClearedKeys(mapKeys, stateObj)
         ops == {UnlinkOp(i) : i \in gone}
     IN /\ Cardinality(pendingIO \cup ops) <= MaxPending
        /\ mapKeys' = mapKeys \ gone
        /\ pendingIO' = pendingIO \cup ops
        /\ stateObj' = Reachable(stateObj, mapKeys', spawned, closed)
  /\ UNCHANGED reader
  /\ UNCHANGED search
  /\ UNCHANGED exitCode
  /\ UNCHANGED <<pc, now, idCounter, processes, disk, spawned, closed, pipe,
                 wphase, wstate, sigterm>>

\* (a delete that empties the map)
MapDeleteAll(keys, id) == {}
\* (a delete that leaves the map as it is)
MapDeleteForgotten(keys, id) == keys
\* this.downloads.delete(id)
MapDelete(keys, id) == keys \ {id}

deleteDownload(id) ==
  /\ pc = "run"
  /\ IF id \in mapKeys
     THEN /\ Cardinality(deleteStateFile(pendingIO, id)) <= MaxPending
          /\ sigterm' = Signal(KillTarget(id))
          /\ processes' = processes \ {id}
          /\ mapKeys' = MapDelete(mapKeys, id)
          /\ pendingIO' = deleteStateFile(pendingIO, id)
          /\ stateObj' = Reachable(stateObj, mapKeys', spawned, closed)
     ELSE UNCHANGED <<sigterm, processes, mapKeys, pendingIO, stateObj>>
  /\ UNCHANGED reader
  /\ UNCHANGED search
  /\ UNCHANGED exitCode
  /\ UNCHANGED <<pc, now, idCounter, disk, spawned, closed, pipe, wphase, wstate>>

\* (a refresh that takes the whole record of the file)
RefreshFromWhole(s, fresh) == fresh
\* refreshOrphaned(): one iteration of its loop, for the record of id
RefreshFrom(s, fresh) ==
  [s EXCEPT !.status = fresh.status, !.progress = fresh.progress,
            !.downloaded = fresh.downloaded, !.total = fresh.total,
            !.speed = fresh.speed, !.eta = fresh.eta, !.peers = fresh.peers,
            !.filePath = fresh.filePath, !.error = fresh.error]

\* the record one iteration leaves: the catch around the read and the check
\* leaves it as it was when the file is missing or does not parse
RefreshResult(id) ==
  IF Readable(disk, id)
  THEN LET s == RefreshFrom(stateObj[id], disk[id])
       IN IF LoadFoundDead(s) THEN MarkEnded(s) ELSE s
  ELSE stateObj[id]

\* (a loop that skips no record)
OrphanedAll == mapKeys
\* the records the loop does not skip: those without a handle
Orphaned == mapKeys \ processes

refreshOrphaned(id) ==
  /\ pc = "run"
  /\ id \in Orphaned
  /\ Readable(disk, id)
  /\ LET s == RefreshFrom(stateObj[id], disk[id])
         dead == LoadFoundDead(s)
         pend == IF dead THEN writeState(pendingIO, MarkEnded(s)) ELSE pendingIO
     IN /\ Cardinality(pend) <= MaxPending
        /\ stateObj' = [stateObj EXCEPT ![id] = RefreshResult(id)]
        /\ pendingIO' = pend
  /\ UNCHANGED reader
  /\ UNCHANGED search
  /\ UNCHANGED exitCode
  /\ UNCHANGED <<pc, now, idCounter, mapKeys, processes, disk, spawned, closed,
                 pipe, wphase, wstate, sigterm>>

\* ------------------------------------------------------------ initial state
\* what an earlier session can have left for the record of id: the state
\* file, and whether its worker still runs
OldRecord(id, pid) ==
  [InitialState(id, "X", "Sample", "720p", 1000, 1) EXCEPT !.pid = pid]
OldProgress(id) ==
  FoldMsg(OldRecord(id, PidOf(id)),
          ProgressMsg(CHOOSE p \in ProgressSamples : p.progress = 50))

InheritedCases(id) ==
  { [file |-> OldRecord(id, 0), phase |-> "exited"],
    [file |-> OldRecord(id, PidOf(id)), phase |-> "exited"],
    [file |-> OldRecord(id, PidOf(id)), phase |-> "connecting"],
    [file |-> OldProgress(id), phase |-> "exited"],
    [file |-> OldProgress(id), phase |-> "ready"],
    [file |-> FoldMsg(OldProgress(id), DoneMsg("/tmp/s.mp4")), phase |-> "exited"],
    [file |-> MarkCancelled(OldProgress(id)), phase |-> "exited"],
    [file |-> FoldMsg(OldRecord(id, PidOf(id)), TimeoutMsg), phase |-> "exited"],
    [file |-> Garbage, phase |-> "exited"] }

InheritedStores ==
  UNION { [ ids -> UNION {InheritedCases(i) : i \in OldIds} ] : ids \in SUBSET OldIds }

\* ------------------------------------------------------------ fuzzy search
\* words are sequences of characters; the characters the words here are made
\* of: a letter with similar letters, its upper case, and a character that
\* has no similar ones
Letters == {"a", "A", "1"}
Words == UNION {[1..n -> Letters] : n \in 0..MaxWord}
NotRun == -1
NoCorrections == << <<"<not run>">> >>
NoSearch ==
  /\ wordA = <<>>
  /\ wordB = <<>>
  /\ dist = NotRun
  /\ corrections = NoCorrections

Min3(x, y, z) ==
  IF x <= y /\ x <= z THEN x ELSE IF y <= z THEN y ELSE z

\* dp[i][j] of levenshtein(a, b), as its loops fill the table
RECURSIVE dp(_, _, _, _)
dp(a, b, i, j) ==
  IF j = 0 THEN i
  ELSE IF i = 0 THEN j
  ELSE IF a[i] = b[j] THEN dp(a, b, i - 1, j - 1)
  ELSE 1 + Min3(dp(a, b, i - 1, j), dp(a, b, i, j - 1), dp(a, b, i - 1, j - 1))

\* (a distance that counts the difference in length only)
levenshteinOfLengths(a, b) ==
  IF Len(a) >= Len(b) THEN Len(a) - Len(b) ELSE Len(b) - Len(a)
levenshtein(a, b) == dp(a, b, Len(a), Len(b))

\* String.prototype.toLowerCase on the characters there are
Lower(c) == IF c = "A" THEN "a" ELSE c
toLowerCase(w) == [i \in 1..Len(w) |-> Lower(w[i])]

\* the table of similar characters; a character without an entry has none
similar(c) ==
  CASE c = "a" -> <<"e", "o", "u">> [] c = "b" -> <<"p", "v", "d">>
    [] c = "c" -> <<"k", "s">>      [] c = "d" -> <<"t", "b", "g">>
    [] c = "e" -> <<"i", "a", "o">> [] c = "f" -> <<"v", "p", "h">>
    [] c = "g" -> <<"j", "k", "d">> [] c = "h" -> <<"g">>
    [] c = "i" -> <<"e", "y", "a">> [] c = "j" -> <<"g">>
    [] c = "k" -> <<"c", "g">>      [] c = "l" -> <<"r">>
    [] c = "m" -> <<"n">>           [] c = "n" -> <<"m">>
    [] c = "o" -> <<"a", "u", "e">> [] c = "p" -> <<"b">>
    [] c = "q" -> <<"k">>           [] c = "r" -> <<"l">>
    [] c = "s" -> <<"c", "z", "x">> [] c = "t" -> <<"d">>
    [] c = "u" -> <<"o", "i">>      [] c = "v" -> <<"b", "f">>
    [] c = "w" -> <<"v">>           [] c = "x" -> <<"s", "z">>
    [] c = "y" -> <<"i", "e">>      [] c = "z" -> <<"s", "x">>
    [] OTHER -> <<>>

RECURSIVE Concat(_)
Concat(ss) == IF ss = <<>> THEN <<>> ELSE Head(ss) \o Concat(Tail(ss))

\* the three loops of generateTypoCorrections over the lower-cased word w;
\* position i counts from 1
Transposed(w, i) ==
  SubSeq(w, 1, i - 1) \o <<w[i + 1], w[i]>> \o SubSeq(w, i + 2, Len(w))
Substituted(w, i, c) == SubSeq(w, 1, i - 1) \o <<c>> \o SubSeq(w, i + 1, Len(w))
Deleted(w, i) == SubSeq(w, 1, i - 1) \o SubSeq(w, i + 1, Len(w))

Transpositions(w) == [i \in 1..(Len(w) - 1) |-> Transposed(w, i)]
Substitutions(w) ==
  Concat([i \in 1..Len(w) |->
            [k \in 1..Len(similar(w[i])) |-> Substituted(w, i, similar(w[i])[k])]])
Deletions(w) == [i \in 1..Len(w) |-> Deleted(w, i)]

\* [...new Set(list)]: the first occurrence of each element, in order
RECURSIVE Dedupe(_)
Dedupe(s) ==
  IF s = <<>> THEN <<>>
  ELSE LET r == Dedupe(SubSeq(s, 1, Len(s) - 1))
           x == s[Len(s)]
       IN IF \E k \in 1..Len(r) : r[k] = x THEN r ELSE Append(r, x)

\* (the list as pushed, not deduplicated)
generateTypoCorrectionsAsPushed(word) ==
  LET w == toLowerCase(word)
  IN Transpositions(w) \o Substitutions(w) \o Deletions(w)
generateTypoCorrections(word) ==
  LET w == toLowerCase(word)
  IN Dedupe(Transpositions(w) \o Substitutions(w) \o Deletions(w))

\* the two helpers called on the words given
CallLevenshtein ==
  /\ dist = NotRun
  /\ dist' = levenshtein(wordA, wordB)
  /\ UNCHANGED <<wordA, wordB, corrections>>
  /\ UNCHANGED reader
  /\ UNCHANGED <<pc, now, idCounter, mapKeys, stateObj, processes, disk,
                 pendingIO, spawned, closed, pipe, wphase, wstate, sigterm,
                 exitCode>>

CallGenerateTypoCorrections ==
  /\ corrections = NoCorrections
  /\ corrections' = generateTypoCorrections(wordA)
  /\ UNCHANGED <<wordA, wordB, dist>>
  /\ UNCHANGED reader
  /\ UNCHANGED <<pc, now, idCounter, mapKeys, stateObj, processes, disk,
                 pendingIO, spawned, closed, pipe, wphase, wstate, sigterm,
                 exitCode>>

\* a session of a newly constructed manager over the store st
InitOver(st) ==
  /\ pc = "boot"
  /\ idCounter = 0
  /\ mapKeys = {}
  /\ stateObj = <<>>
  /\ processes = {}
  /\ pendingIO = {}
  /\ spawned = {}
  /\ closed = {}
  /\ pipe = <<>>
  /\ sigterm = {}
  /\ stdout = <<>>
  /\ reads = <<>>
  /\ buffer = <<>>
  /\ folded = <<>>
  /\ NoSearch
  /\ disk = [i \in DOMAIN st |-> FileOf(st[i].file)]
  /\ wphase = [i \in DOMAIN st |-> st[i].phase]
  /\ exitCode = [i \in DOMAIN st |->
                   IF st[i].phase = "exited" THEN NoCode ELSE Running]
  /\ wstate = [i \in DOMAIN st |->
                 IF st[i].phase = "exited" THEN NoState ELSE st[i].file]

\* STATE_DIR is empty (or absent)
Init ==
  /\ now = 2
  /\ InitOver(<<>>)

\* STATE_DIR holds the state files of earlier sessions
InitLoad ==
  /\ now \in SessionTimes
  /\ \E st \in InheritedStores :
       /\ \A i \in DOMAIN st : st[i] \in InheritedCases(i)
       /\ InitOver(st)

\* one transfer started, its worker's output still to be read: any stream of
\* bytes
InitReader ==
  /\ now = 2
  /\ pc = "run"
  /\ idCounter = 1
  /\ LET id == NewId(now, 1)
         s == [InitialState(id, "X", "Sample", "720p", 1000, now) EXCEPT !.pid = PidOf(id)]
     IN /\ mapKeys = {id}
        /\ stateObj = (id :> s)
        /\ processes = {id}
        /\ spawned = {id}
        /\ pipe = (id :> <<>>)
        /\ disk = (id :> s)
        /\ wphase = (id :> "ready")
        /\ exitCode = (id :> Running)
        /\ wstate = (id :> s)
  /\ pendingIO = {}
  /\ closed = {}
  /\ sigterm = {}
  /\ stdout \in ByteStreams
  /\ reads = <<>>
  /\ buffer = <<>>
  /\ folded = <<>>
  /\ NoSearch

\* ids a caller can pass: every id a record can have
CallIds == OldIds \cup {NewId(now, c) : c \in 1..Len(CallerPlanPair)}

\* the worker processes, the handlers of the workers' streams, the caller's
\* operations on the records there are
WorkerEvents(cap) ==
  \/ \E id \in Workers : WorkerStart(id)
  \/ \E id \in Workers : \E m \in WorkerSends(wphase[id]) : WorkerSend(id, m, cap)
  \/ \E id \in Workers : WorkerDie(id)

StreamEvents(cap) ==
  \/ \E id \in spawned : \E k \in 1..cap : OnData(id, k)
  \/ \E id \in spawned : OnClose(id)

CallerOps ==
  \/ \E id \in CallIds : cancelDownload(id)
  \/ clearCompleted
  \/ \E id \in CallIds : deleteDownload(id)
  \/ \E id \in mapKeys : refreshOrphaned(id)

\* main(): loadDownloads() is called once, before anything else
main == pc = "boot" /\ loadDownloads

\* the transfers of a plan, started one after the other once main has loaded
StartNext(plan) ==
  /\ idCounter < Len(plan)
  /\ \E m \in Magnets, ti \in TorrentInfos, ok \in BOOLEAN :
       startDownload(m, plan[idCounter + 1], ti, ok)

Starts(plan) ==
  /\ pc = "run"
  /\ StartNext(plan)


\* one transfer; file operations complete at any later time, in any order
Next ==
  \/ main
  \/ Starts(CallerPlan)
  \/ WorkerEvents(MaxPipe)
  \/ \E id \in Workers : WorkerDieWriting(id)
  \/ StreamEvents(MaxPipe)
  \/ CallerOps
  \/ \E op \in pendingIO : IoComplete(op)

Spec == Init /\ [][Next]_vars

\* two transfers; a file operation completes before the next event
NextPair ==
  \/ pendingIO = {} /\ main
  \/ pendingIO = {} /\ Starts(CallerPlanPair)
  \/ pendingIO = {} /\ WorkerEvents(MaxPipePair)
  \/ pendingIO = {} /\ StreamEvents(MaxPipePair)
  \/ pendingIO = {} /\ CallerOps
  \/ \E op \in pendingIO : IoComplete(op)

SpecPair == Init /\ [][NextPair]_vars

\* a session over the records of earlier sessions, none started; a file
\* operation completes before the next event
NextLoad ==
  \/ pendingIO = {} /\ main
  \/ pendingIO = {} /\ WorkerEvents(MaxPipe)
  \/ pendingIO = {} /\ \E id \in Workers : WorkerDieWriting(id)
  \/ pendingIO = {} /\ CallerOps
  \/ \E op \in pendingIO : IoComplete(op)

SpecLoad == InitLoad /\ [][NextLoad]_vars

\* the same session in which main runs, file operations complete, and the
\* list of downloads is viewed (refreshOrphaned called) again and again
FairLoad ==
  /\ WF_vars(pendingIO = {} /\ main)
  /\ WF_vars(\E op \in pendingIO : IoComplete(op))
  /\ \A id \in OldIds : WF_vars(pendingIO = {} /\ refreshOrphaned(id))

SpecLoadFair == SpecLoad /\ FairLoad

\* a session that first loads the records of earlier sessions and then starts
\* a transfer of its own; a file operation completes before the next event
NextResume ==
  \/ pendingIO = {} /\ main
  \/ pendingIO = {} /\ Starts(CallerPlan)
  \/ pendingIO = {} /\ WorkerEvents(MaxPipePair)
  \/ pendingIO = {} /\ StreamEvents(MaxPipePair)
  \/ pendingIO = {} /\ CallerOps
  \/ \E op \in pendingIO : IoComplete(op)

\* STATE_DIR holds at most the state file of the first download of an
\* earlier session
InitResume ==
  /\ now \in SessionTimes
  /\ \E ids \in SUBSET {NewId(1, 1)} : \E st \in [ids -> InheritedCases(NewId(1, 1))] :
       InitOver(st)

SpecResume == InitResume /\ [][NextResume]_vars

\* the 'data' events of one stream, cut into chunks in every way
NextReader == \E id \in spawned : \E n \in 1..MaxStream : OnChunk(id, n)

SpecReader == InitReader /\ [][NextReader]_vars

\* a session in which loadDownloads is called at any time, also after a
\* transfer was started and more than once; no record leaves the map
NextReload ==
  \/ pendingIO = {} /\ loadDownloads
  \/ pendingIO = {} /\ StartNext(CallerPlan)
  \/ pendingIO = {} /\ WorkerEvents(MaxPipePair)
  \/ pendingIO = {} /\ StreamEvents(MaxPipePair)
  \/ pendingIO = {} /\ \E id \in CallIds : cancelDownload(id)
  \/ pendingIO = {} /\ \E id \in mapKeys : refreshOrphaned(id)
  \/ \E op \in pendingIO : IoComplete(op)

SpecReload == InitResume /\ [][NextReload]_vars

\* the search helpers on every pair of words
InitSearch ==
  /\ now = 2
  /\ pc = "run"
  /\ idCounter = 0
  /\ mapKeys = {}
  /\ stateObj = <<>>
  /\ processes = {}
  /\ disk = <<>>
  /\ pendingIO = {}
  /\ spawned = {}
  /\ closed = {}
  /\ pipe = <<>>
  /\ wphase = <<>>
  /\ wstate = <<>>
  /\ exitCode = <<>>
  /\ sigterm = {}
  /\ stdout = <<>>
  /\ reads = <<>>
  /\ buffer = <<>>
  /\ folded = <<>>
  /\ wordA \in Words
  /\ wordB \in Words
  /\ dist = NotRun
  /\ corrections = NoCorrections

NextSearch ==
  \/ CallLevenshtein
  \/ CallGenerateTypoCorrections

SpecSearch == InitSearch /\ [][NextSearch]_vars


\* ================================================================== claims
Ended(s) == s.status = "error" /\ s.error = "Process ended unexpectedly"
Cancelled(s) == s.status = "error" /\ s.error = "Cancelled"
DataStep(id) == \E k \in 1..Len(pipe[id]) : OnData(id, k)
\* the file operations a step issues
Issued == pendingIO' \ pendingIO

\* C1: folding worker messages into a record that is done, error or timeout
\* leaves every field of the record unchanged.
C1_TerminalAbsorbsMessages ==
  [][\A id \in mapKeys \cap spawned :
       (IsTerminal(stateObj[id]) /\ DataStep(id)) => stateObj'[id] = stateObj[id]]_vars

\* C2: once cancelDownload has set a current-session record to error
\* "Cancelled", neither the worker's buffered messages nor the close of its
\* stream change that status or that message.
C2_CancelledSurvivesStream ==
  [][\A id \in mapKeys \cap spawned :
       (Cancelled(stateObj[id]) /\ (DataStep(id) \/ OnClose(id)))
         => Cancelled(stateObj'[id])]_vars

\* C3: the status the protocol documents after a message of each kind
DocumentedStatus(type) ==
  CASE type \in {"meta", "progress"} -> "downloading"
    [] type = "done" -> "done"
    [] type = "error" -> "error"
    [] type = "timeout" -> "timeout"

TransferFields(s) ==
  [progress |-> s.progress, downloaded |-> s.downloaded, total |-> s.total,
   speed |-> s.speed, eta |-> s.eta, peers |-> s.peers]

\* C3: a message folded into an active record yields the documented status
\* (progress overwrites the transfer fields), whether it is the first message
\* or a later one; a record is created with status connecting.
C3_ActiveFoldFollowsProtocol ==
  [][/\ \A id \in mapKeys \cap spawned : \A k \in 1..Len(pipe[id]) :
          (IsActive(stateObj[id]) /\ OnData(id, k)) =>
             /\ stateObj'[id].status = DocumentedStatus(pipe[id][k].type)
             /\ pipe[id][k].type = "progress" =>
                  TransferFields(stateObj'[id]) = pipe[id][k].prog
     /\ \A id \in mapKeys' \ mapKeys : stateObj'[id].status = "connecting"]_vars

\* C3 witness: a record with a live handle went from one progress message to
\* a later one and is downloading with the later one's fields
C3_Witness ==
  \E id \in mapKeys \cap processes :
    /\ stateObj[id].status = "downloading"
    /\ stateObj[id].progress = 80
    /\ stateObj[id].downloaded = 800
    /\ wphase[id] = "ready"
    /\ pipe[id] = <<>>

\* C4: cancelDownload of an active record leaves it error "Cancelled", issues
\* the write of that record to its slot, drops the handle, and signals the
\* worker: through the handle if there is one, else through the stored pid
\* (a pid that is gone is ignored).
C4_CancelActive ==
  [][\A id \in mapKeys :
       (IsActive(stateObj[id]) /\ cancelDownload(id)) =>
          /\ Cancelled(stateObj'[id])
          /\ WriteOp(id, stateObj'[id]) \in pendingIO'
          /\ id \notin processes'
          /\ LET pid == IF id \in processes THEN PidOf(id) ELSE stateObj[id].pid
             IN sigterm' = sigterm \cup ({pid} \cap LivePids)]_vars

\* C4 witness: a cancelled record, its write pending, its worker signalled
C4_Witness ==
  \E id \in mapKeys :
    /\ Cancelled(stateObj[id])
    /\ WriteOp(id, stateObj[id]) \in pendingIO
    /\ PidOf(id) \in sigterm
    /\ id \notin processes

\* C5: cancelDownload of an unknown id, or of a record that is done, error or
\* timeout, leaves the record map and every durable slot (and the writes
\* under way) unchanged.
C5_CancelNoOp ==
  [][\A id \in CallIds :
       (cancelDownload(id) /\ (id \in mapKeys => IsTerminal(stateObj[id]))) =>
          /\ downloads' = downloads
          /\ disk' = disk
          /\ pendingIO' = pendingIO]_vars

\* C5 witness: beside an active record, a done record whose handle
\* cancelDownload dropped before the stream closed
C5_Witness ==
  \E a \in mapKeys, b \in mapKeys :
    /\ IsActive(stateObj[a])
    /\ stateObj[b].status = "done" /\ stateObj[b].error = Unset
    /\ b \in spawned \ closed
    /\ b \notin processes

\* C6: deleteDownload removes the record of a known id whatever its status,
\* changes nothing for an unknown id, and a record that has left the map
\* does not come back, whatever the stream delivers afterwards.
C6_DeleteRemoves ==
  [][/\ \A id \in CallIds :
          deleteDownload(id) =>
             IF id \in mapKeys THEN id \notin mapKeys' ELSE UNCHANGED vars
     /\ \A id \in Workers \ mapKeys : pc = "run" => id \notin mapKeys']_vars

\* C6 witness: a record deleted while downloading, lines still in its pipe
C6_Witness ==
  \E id \in spawned \ mapKeys :
    /\ id \notin closed
    /\ stateObj[id].status = "downloading"
    /\ pipe[id] # <<>>

\* C7: once a record is destroyed (deleteDownload, clearCompleted), nothing in
\* the session writes its durable slot again: the manager issues no write
\* for it, the worker writes nothing, and the slot does not reappear.
C7_DestroyedSlotStaysAbsent ==
  [][\A id \in spawned \ mapKeys :
       /\ \A op \in Issued : ~(op.kind = "write" /\ op.slot = id)
       /\ id \notin DOMAIN disk => id \notin DOMAIN disk']_vars

\* C8: clearCompleted removes exactly the done, error and timeout records and
\* issues the deletion of exactly their slots; the active records keep
\* their fields and their slots.
C8_ClearExactlyTerminal ==
  [][clearCompleted =>
       /\ mapKeys' = {i \in mapKeys : stateObj[i].status \in {"connecting", "downloading"}}
       /\ \A i \in mapKeys' : stateObj'[i] = stateObj[i]
       /\ \A i \in mapKeys \ mapKeys' : UnlinkOp(i) \in pendingIO'
       /\ \A op \in Issued : op.kind = "unlink" /\ op.slot \in mapKeys \ mapKeys'
       /\ disk' = disk]_vars

\* C8 witness: clearCompleted took a terminal record out and left an active one
C8_Witness ==
  \E a \in mapKeys, b \in spawned \ mapKeys :
    /\ IsActive(stateObj[a])
    /\ a \in DOMAIN disk
    /\ UnlinkOp(b) \in pendingIO
    /\ b \in closed

\* C9: loadDownloads puts a stored active record whose pid is gone in the map
\* as error "Process ended unexpectedly" and issues the write of that state;
\* a stored active record whose pid is alive is loaded as stored.
C9_LoadMarksDead ==
  [][loadDownloads =>
       \A f \in DOMAIN disk :
         (IsActive(disk[f]) /\ disk[f].pid # 0) =>
            /\ f \in mapKeys'
            /\ IF disk[f].pid \in LivePids
               THEN stateObj'[f] = disk[f]
               ELSE /\ Ended(stateObj'[f])
                    /\ WriteOp(f, stateObj'[f]) \in pendingIO']_vars

\* C9 witness: right after loadDownloads, one record marked, one still active
C9_Witness ==
  /\ pc = "run"
  /\ \E a \in mapKeys, b \in mapKeys :
       /\ Ended(stateObj[a]) /\ WriteOp(a, stateObj[a]) \in pendingIO
       /\ IsActive(disk[a])
       /\ IsActive(stateObj[b]) /\ stateObj[b] = disk[b] /\ stateObj[b].pid \in LivePids

\* C10: the close of a stream sets an active record to error "Process ended
\* unexpectedly" and issues its write; a record a terminal message (or a
\* cancel) made terminal keeps every field, and nothing is written.
C10_CloseMarksActive ==
  [][\A id \in mapKeys \cap spawned :
       OnClose(id) =>
          IF IsActive(stateObj[id])
          THEN /\ Ended(stateObj'[id])
               /\ WriteOp(id, stateObj'[id]) \in pendingIO'
          ELSE /\ stateObj'[id] = stateObj[id]
               /\ pendingIO' = pendingIO]_vars

\* C10 witness: a stream closed on a record a done message had completed,
\* and the record is still done with its file path
C10_Witness ==
  \E id \in mapKeys \cap closed :
    /\ stateObj[id].status = "done"
    /\ stateObj[id].filePath = "/tmp/s.mp4"
    /\ stateObj[id].error = Unset

\* C11: refreshOrphaned leaves a record that is done, error or timeout in a
\* terminal status, whatever its durable slot holds at that moment.
C11_RefreshKeepsTerminal ==
  [][\A id \in mapKeys :
       (IsTerminal(stateObj[id]) /\ refreshOrphaned(id)) => IsTerminal(stateObj'[id])]_vars

\* C12: every record of the map has a file path if and only if it is done.
C12_FilePathIffDone ==
  \A id \in mapKeys : (stateObj[id].filePath # Unset) <=> (stateObj[id].status = "done")

\* C13: every record of the map has an error message if and only if it is
\* error or timeout.
C13_ErrorIffFailed ==
  \A id \in mapKeys :
    (stateObj[id].error # Unset) <=> (stateObj[id].status \in {"error", "timeout"})

C15_OtherRecordUntouched ==
  [][\A a \in CallIds : \A b \in mapKeys \ {a} :
       (\/ a \in spawned /\ (DataStep(a) \/ OnClose(a))
        \/ cancelDownload(a)
        \/ deleteDownload(a))
         => /\ b \in mapKeys'
            /\ stateObj'[b] = stateObj[b]
            /\ \A op \in Issued : op.slot # b]_vars

\* C15 witness: two transfers of this session, one cancelled and then
\* deleted while the other goes on downloading
C15_Witness ==
  \E a \in (spawned \ closed) \ mapKeys, b \in mapKeys \cap processes :
    /\ a # b
    /\ Cancelled(stateObj[a])
    /\ stateObj[b].status = "downloading"
    /\ wphase[b] = "ready"

\* C16: from an empty list, startDownload leaves one record, connecting, with
\* nothing downloaded; meta then progress(50 %, 500 of 1000) leave the record
\* downloading at 50 %; done(path) then leaves it done with that path, and
\* getActive() empty.
C16_Scenario ==
  [][/\ (mapKeys = {} /\ idCounter' # idCounter) =>
          /\ Cardinality(getDownloads') = 1
          /\ \A d \in getDownloads' : d.status = "connecting" /\ d.downloaded = 0
     /\ \A id \in mapKeys \cap spawned : \A k \in 1..Len(pipe[id]) :
          (IsActive(stateObj[id]) /\ OnData(id, k)) =>
             /\ (pipe[id][k].type = "progress" /\ pipe[id][k].prog.downloaded = 500) =>
                  /\ stateObj'[id].status = "downloading"
                  /\ stateObj'[id].progress = 50
                  /\ stateObj'[id].downloaded = 500
                  /\ stateObj'[id].total = 1000
             /\ pipe[id][k].type = "done" =>
                  /\ stateObj'[id].status = "done"
                  /\ stateObj'[id].filePath = pipe[id][k].path
                  /\ getActive' = {}]_vars

\* C16 witness: the record of the scenario at its end: 500 of 1000 reported,
\* then done with the path, no active record left
C16_Witness ==
  /\ Cardinality(getDownloads) = 1
  /\ getActive = {}
  /\ \E id \in mapKeys \cap processes :
       /\ stateObj[id].status = "done"
       /\ stateObj[id].filePath = "/tmp/s.mp4"
       /\ stateObj[id].downloaded = 500
       /\ stateObj[id].total = 1000

\* the lines of the stream delivered so far that a newline has ended
TerminatedLines ==
  LET lines == Split(toString(SubSeq(stdout, 1, Delivered)))
  IN SubSeq(lines, 1, Len(lines) - 1)

\* C17: however the stream is cut into chunks, the messages folded so far are
\* the messages of the newline-terminated lines of the stream delivered so
\* far, in stream order, each once.
C17_ChunkingInvisible == folded = Messages(TerminatedLines)

\* the lines a chunk of the next n bytes completes
CompletedBy(n) ==
  LET lines == Split(buffer \o toString(SubSeq(stdout, Delivered + 1, Delivered + n)))
  IN SubSeq(lines, 1, Len(lines) - 1)
OfKnownKind(m) == m.type \in {"meta", "progress", "done", "error", "timeout"}

\* C18: lines that are blank, that do not parse, or that carry a message of an
\* unknown kind leave every field of the record as it was; the record after
\* a chunk is the fold of the chunk's well-formed messages alone, those that
\* come after a malformed line in the same chunk included, and the handler
\* takes every chunk.
C18_MalformedLinesIgnored ==
  [][\A id \in mapKeys \cap spawned : \A n \in 1..MaxStream :
       OnChunk(id, n) =>
          LET known == SelectSeq(Messages(CompletedBy(n)), OfKnownKind)
          IN /\ known = <<>> => stateObj'[id] = stateObj[id]
             /\ stateObj'[id] = FoldLines(stateObj[id], known)
             /\ known # <<>> =>
                  stateObj'[id].status = DocumentedStatus(known[Len(known)].type)
             /\ Sum(reads') = Delivered + n]_vars

\* C18 witness: one chunk held a line that does not parse and then a progress
\* line, and the record shows the progress
C18_Witness ==
  /\ stdout = <<"a", "\n", "P", "\n">>
  /\ reads = <<4>>
  /\ \E id \in mapKeys : stateObj[id].status = "downloading" /\ stateObj[id].downloaded = 500

\* C19: after a 'data' step that changed the record, the record is persisted:
\* its write is under way, or the durable slot of its id holds the record's
\* status and transfer fields.
C19_FoldThenPersist ==
  [][\A id \in mapKeys \cap spawned :
       (DataStep(id) /\ stateObj'[id] # stateObj[id]) =>
          \/ WriteOp(id, stateObj'[id]) \in pendingIO'
          \/ /\ id \in DOMAIN disk'
             /\ disk'[id].status = stateObj'[id].status
             /\ TransferFields(disk'[id]) = TransferFields(stateObj'[id])]_vars

\* C20: a record that writeState wrote in an earlier session, terminal and
\* not older than a day or active with its process alive, is put in the map
\* by loadDownloads equal to the written record in every field.
C20_RoundTrip ==
  [][loadDownloads =>
       \A f \in DOMAIN disk : \A c \in InheritedCases(f) :
         (/\ disk[f] = FileOf(c.file)
          /\ \/ IsTerminal(c.file) /\ now - c.file.startedAt <= ONE_DAY
             \/ IsActive(c.file) /\ c.file.pid \in LivePids)
           => /\ f \in mapKeys'
              /\ stateObj'[f] = c.file]_vars

\* C20 witness: loaded side by side, a done record started exactly a day
\* before with its path, and a downloading record whose worker still runs
C20_Witness ==
  /\ pc = "run"
  /\ now = 1 + ONE_DAY
  /\ \E a \in mapKeys, b \in mapKeys :
       /\ stateObj[a] = FoldMsg(OldProgress(a), DoneMsg("/tmp/s.mp4"))
       /\ stateObj[b] = OldProgress(b)
       /\ wphase[b] = "ready"

\* a stored record that loadDownloads finds too old to keep
Expired(s) == IsTerminal(s) /\ now - s.startedAt > ONE_DAY

\* C21: loadDownloads runs to its end whatever the store holds; a slot that
\* does not parse is not loaded, and every slot that parses (and holds a
\* record with an id that is not expired) is loaded.
C21_LoadSkipsUnparseable ==
  /\ [](pc = "boot" => ENABLED loadDownloads)
  /\ [][loadDownloads =>
          /\ pc' = "run"
          /\ \A f \in DOMAIN disk :
               /\ disk[f] = Garbage => f \notin mapKeys'
               /\ (disk[f] # Garbage /\ disk[f].id # NoId /\ ~Expired(disk[f]))
                    => f \in mapKeys' /\ stateObj'[f].id = f]_vars

\* C21 witness: after the load, the store holds a file that does not parse,
\* never loaded, next to the slot of a record that was loaded
C21_Witness ==
  /\ pc = "run"
  /\ \E g \in DOMAIN disk, f \in mapKeys :
       /\ disk[g] = Garbage
       /\ g \notin mapKeys
       /\ wphase[g] = "exited"
       /\ f \in DOMAIN disk /\ disk[f] = stateObj[f]
       /\ mapKeys = {f}

\* C23: of the stored records that parse and carry an id, loadDownloads
\* leaves out of the map, and issues the deletion of the slot of, exactly
\* those that are done, error or timeout and more than a day old; the
\* others (terminal and at most a day old, or active of any age) are put in
\* the map and their slots are kept.
C23_LoadPrunesOld ==
  [][loadDownloads =>
       \A f \in DOMAIN disk :
         (disk[f] # Garbage /\ disk[f].id # NoId) =>
            IF Expired(disk[f])
            THEN f \notin mapKeys' /\ UnlinkOp(f) \in pendingIO'
            ELSE f \in mapKeys' /\ UnlinkOp(f) \notin pendingIO']_vars

\* C23 witness: loaded more than a day later, a done record is gone and its
\* slot is being deleted, while a record stored as downloading is in the map
C23_Witness ==
  /\ pc = "run"
  /\ now = 2 + ONE_DAY
  /\ \E a \in DOMAIN disk, b \in mapKeys :
       /\ a \notin mapKeys
       /\ disk[a].status = "done"
       /\ UnlinkOp(a) \in pendingIO
       /\ disk[b].status = "downloading"

\* C22: whenever a slot is read it holds a whole record: no slot ever holds a
\* partly written file, and the worker's start-up read of a slot that is
\* there gives the record the slot holds.
C22_ReadersSeeWholeRecords ==
  /\ [](\A id \in DOMAIN disk : disk[id] # Garbage)
  /\ [][\A id \in Workers :
          (WorkerStart(id) /\ id \in DOMAIN disk) =>
             wstate'[id] = WorkerInitialState(disk[id], PidOf(id), wstate[id].magnet)]_vars

\* C24: the record an iteration of refreshOrphaned leaves for a record without
\* a live handle is not connecting or downloading with a stored pid that
\* belongs to no live process, whatever its slot holds, a missing or
\* unparseable file included.
C24_RefreshReappliesLiveness ==
  pc = "run" =>
    \A id \in mapKeys \ processes :
      (IsActive(RefreshResult(id)) /\ RefreshResult(id).pid # 0)
        => ProbeAlive(RefreshResult(id).pid)

C26_ProgressMonotone ==
  /\ [](\A id \in mapKeys : stateObj[id].progress \in 0..100)
  /\ [][\A id \in mapKeys \cap mapKeys' :
          (stateObj[id].status = "downloading" /\ stateObj'[id].status = "downloading")
            => stateObj'[id].progress >= stateObj[id].progress]_vars

\* C27: the in-memory record of a transfer keeps its id, movieTitle, quality,
\* magnet and startedAt through every step taken after it was created or
\* loaded.
C27_IdentityFieldsKept ==
  [][\A i \in DOMAIN stateObj \cap DOMAIN stateObj' :
       /\ stateObj'[i].id = stateObj[i].id
       /\ stateObj'[i].movieTitle = stateObj[i].movieTitle
       /\ stateObj'[i].quality = stateObj[i].quality
       /\ stateObj'[i].magnet = stateObj[i].magnet
       /\ stateObj'[i].startedAt = stateObj[i].startedAt]_vars

\* C27 witness: a cancelled record that a refresh made active again from a
\* state file which holds no title and no id; the record still has both
C27_Witness ==
  \E id \in (mapKeys \cap spawned) \ processes :
    /\ IsActive(stateObj[id])
    /\ stateObj[id].error = Unset
    /\ Readable(disk, id)
    /\ disk[id].movieTitle = Unset
    /\ disk[id].id = NoId
    /\ stateObj[id].id = id
    /\ stateObj[id].movieTitle # Unset

\* C28: every record a worker writes to its state file, at start-up or when
\* it sends a message, carries the id, movieTitle, quality and startedAt that
\* startDownload gave the transfer, however the two writes of startDownload
\* interleave with the worker's start-up read.
C28_WorkerKeepsCallerFields ==
  [][\A id \in spawned \cap DOMAIN stateObj :
       (WorkerStart(id) \/ \E m \in WorkerSends(wphase[id]) : WorkerSend(id, m, MaxPipe))
         => /\ Readable(disk', id)
            /\ disk'[id].id = id
            /\ disk'[id].movieTitle = stateObj[id].movieTitle
            /\ disk'[id].quality = stateObj[id].quality
            /\ disk'[id].startedAt = stateObj[id].startedAt]_vars

\* C29: getActive() is the part of getDownloads() whose status is connecting
\* or downloading, no more and no less, and both are empty for a manager
\* that has just been constructed.
C29_ActiveIsFilterOfAll ==
  /\ getActive \subseteq getDownloads
  /\ \A i \in mapKeys :
       (stateObj[i] \in getActive)
         <=> (stateObj[i].status = "connecting" \/ stateObj[i].status = "downloading")
  /\ Cardinality(getDownloads) = Cardinality(mapKeys)
  /\ pc = "boot" => (getDownloads = {} /\ getActive = {})

\* C29 witness: two records are listed, one cancelled and one downloading,
\* and getActive() gives the downloading one alone
C29_Witness ==
  \E a, b \in mapKeys :
    /\ stateObj[a].status = "error"
    /\ stateObj[b].status = "downloading"
    /\ getDownloads = {stateObj[a], stateObj[b]}
    /\ getActive = {stateObj[b]}

\* C30: when startDownload returns, also when the worker could not be
\* spawned, the new record is in the map with status connecting, a handle of
\* a live worker is registered for its id, and the worker's process id is in
\* the record and in a write issued to the state file.
C30_StartRegistersWorker ==
  [][idCounter' = idCounter + 1 =>
       LET id == NewId(now, idCounter')
       IN /\ id \in mapKeys'
          /\ stateObj'[id].status = "connecting"
          /\ id \in processes'
          /\ wphase'[id] # "exited"
          /\ stateObj'[id].pid # 0
          /\ stateObj'[id].pid \in LivePids'
          /\ WriteOp(id, stateObj'[id]) \in pendingIO']_vars

\* C31: a worker's exit code is 0 exactly when it ended after sending done or
\* timeout; it is not 0 after error, and not 0 when the worker was started
\* without a magnet.
C31_ExitCodeFollowsOutcome ==
  [][\A id \in spawned :
       /\ (Len(pipe'[id]) > Len(pipe[id])
             /\ pipe'[id][Len(pipe'[id])].type \in TerminalMsgTypes)
            => /\ exitCode'[id] # Running
               /\ exitCode'[id] = 0
                    <=> pipe'[id][Len(pipe'[id])].type \in {"done", "timeout"}
       /\ (exitCode[id] # 0 /\ exitCode'[id] = 0)
            => /\ Len(pipe'[id]) > Len(pipe[id])
               /\ pipe'[id][Len(pipe'[id])].type \in {"done", "timeout"}
       /\ (wphase[id] = "boot" /\ wphase'[id] = "exited" /\ stateObj[id].magnet = "")
            => exitCode'[id] \notin {0, Running}
       /\ exitCode[id] # Running => exitCode'[id] = exitCode[id]]_vars

\* C31 witness: of two workers, one was started with an empty magnet and
\* ended with code 1 without a message, the other sent done and ended with 0
C31_Witness ==
  \E a, b \in spawned \cap mapKeys :
    /\ stateObj[a].magnet = ""
    /\ exitCode[a] = 1
    /\ pipe[a] = <<>>
    /\ exitCode[b] = 0
    /\ pipe[b] # <<>>
    /\ pipe[b][Len(pipe[b])].type = "done"

\* C32: a worker sends meta at most once and before any progress message,
\* and sends timeout only while it has sent no meta: the step that sends
\* meta takes the worker out of its connecting phase for good, progress is
\* sent only after that step and timeout only before it.
C32_MetaOnceTimeoutBefore ==
  [][\A id \in spawned :
       /\ Len(pipe'[id]) > Len(pipe[id]) =>
            LET m == pipe'[id][Len(pipe'[id])]
            IN /\ m.type = "meta" => (wphase[id] = "connecting" /\ wphase'[id] = "ready")
               /\ m.type = "progress" => wphase[id] = "ready"
               /\ m.type = "timeout" => wphase[id] = "connecting"
       /\ wphase[id] = "ready" => wphase'[id] \in {"ready", "exited"}
       /\ (wphase[id] # "ready" /\ wphase'[id] = "ready")
            => /\ Len(pipe'[id]) > Len(pipe[id])
               /\ pipe'[id][Len(pipe'[id])].type = "meta"
       /\ wphase[id] = "exited" => wphase'[id] = "exited"]_vars

\* C32 witness: a worker has sent meta and then progress, and runs on
C32_Witness ==
  \E id \in spawned :
    /\ Len(pipe[id]) = 2
    /\ pipe[id][1].type = "meta"
    /\ pipe[id][2].type = "progress"
    /\ wphase[id] = "ready"

\* the words one insertion, deletion or substitution of a character away
OneEdit(s) ==
  {Deleted(s, i) : i \in 1..Len(s)}
    \cup {Substituted(s, i, c) : i \in 1..Len(s), c \in Letters}
    \cup {SubSeq(s, 1, i) \o <<c>> \o SubSeq(s, i + 1, Len(s)) :
            i \in 0..Len(s), c \in Letters}
\* the words at most k edits away from a word of S
RECURSIVE Within(_, _)
Within(S, k) ==
  IF k = 0 THEN S ELSE Within(S \cup UNION {OneEdit(s) : s \in S}, k - 1)
\* the least number of edits that turn a into b
EditDistance(a, b) ==
  CHOOSE k \in 0..(Len(a) + Len(b)) :
    /\ b \in Within({a}, k)
    /\ k > 0 => b \notin Within({a}, k - 1)

\* C33: levenshtein(a, b) is the least number of single-character
\* insertions, deletions and substitutions that turn a into b; it is 0
\* exactly when the words are equal, the length of the other word when one
\* is empty, and the same in both directions.
C33_LevenshteinIsEditDistance ==
  dist # NotRun =>
    /\ dist = EditDistance(wordA, wordB)
    /\ dist = 0 <=> wordA = wordB
    /\ wordA = <<>> => dist = Len(wordB)
    /\ wordB = <<>> => dist = Len(wordA)
    /\ dist = levenshtein(wordB, wordA)

\* C33 witness: the distance of two words of full length that differ in
\* every position has been computed, and is that length
C33_Witness ==
  /\ dist = MaxWord
  /\ Len(wordA) = MaxWord
  /\ Len(wordB) = MaxWord
  /\ \A i \in 1..MaxWord : wordA[i] # wordB[i]

\* the kind of a correction of word w: 1 a transposition, 2 a substitution,
\* 3 a deletion
IsTransposition(w, x) ==
  \E i \in 1..(Len(w) - 1) :
    /\ Len(x) = Len(w)
    /\ x[i] = w[i + 1]
    /\ x[i + 1] = w[i]
    /\ \A k \in (1..Len(w)) \ {i, i + 1} : x[k] = w[k]
IsSubstitution(w, x) ==
  \E i \in 1..Len(w) :
    /\ Len(x) = Len(w)
    /\ \E k \in 1..Len(similar(w[i])) : x[i] = similar(w[i])[k]
    /\ \A k \in (1..Len(w)) \ {i} : x[k] = w[k]
IsDeletion(w, x) ==
  \E i \in 1..Len(w) :
    /\ Len(x) = Len(w) - 1
    /\ \A k \in 1..(i - 1) : x[k] = w[k]
    /\ \A k \in i..Len(x) : x[k] = w[k + 1]
Kind(w, x) ==
  IF IsTransposition(w, x) THEN 1 ELSE IF IsSubstitution(w, x) THEN 2 ELSE 3

\* C34: generateTypoCorrections(word) has no element twice, holds every
\* transposition of two adjacent characters of the lower-cased word, every
\* substitution of a character by one of its similar characters and every
\* deletion of a character, and nothing else, the transpositions before the
\* substitutions and these before the deletions.
C34_TypoCorrections ==
  corrections # NoCorrections =>
    LET w == [i \in 1..Len(wordA) |-> IF wordA[i] = "A" THEN "a" ELSE wordA[i]]
        has(x) == \E p \in 1..Len(corrections) : corrections[p] = x
    IN /\ \A p, q \in 1..Len(corrections) : corrections[p] = corrections[q] => p = q
       /\ \A p \in 1..Len(corrections) :
            \/ IsTransposition(w, corrections[p])
            \/ IsSubstitution(w, corrections[p])
            \/ IsDeletion(w, corrections[p])
       /\ \A i \in 1..(Len(w) - 1) : has(Transposed(w, i))
       /\ \A i \in 1..Len(w) : \A k \in 1..Len(similar(w[i])) :
            has(Substituted(w, i, similar(w[i])[k]))
       /\ \A i \in 1..Len(w) : has(Deleted(w, i))
       /\ \A p, q \in 1..Len(corrections) :
            Kind(w, corrections[p]) < Kind(w, corrections[q]) => p < q

\* C34 witness: the corrections of a word with an upper-case letter and a
\* repeated letter, whose pushes repeat (two of its deletions are equal)
C34_Witness ==
  /\ wordA = <<"A", "a", "1">>
  /\ corrections # NoCorrections
  /\ Len(corrections) = 10

\* C35: cancelDownload of a record that is done, error or timeout signals no
\* process: in no state does the call, made for such a record, have a live
\* process as the target of its kill, be it the worker behind a handle or
\* the process that has the pid stored in the record.
C35_CancelTerminalSignalsNothing ==
  pc = "run" =>
    \A id \in mapKeys :
      IsTerminal(stateObj[id]) =>
        /\ KillTarget(id) \notin LivePids
        /\ Signal(KillTarget(id)) = sigterm

\* C37: refreshOrphaned leaves alone every record that has a handle: no
\* step of it changes such a record or issues a file operation.
C37_RefreshSkipsHandled ==
  [][\A id \in mapKeys \cap processes :
       (\E j \in mapKeys : refreshOrphaned(j))
          => /\ stateObj'[id] = stateObj[id]
             /\ ~ refreshOrphaned(id)
             /\ \A op \in pendingIO' \ pendingIO : op.slot # id]_vars

\* C37 witness: one record was refreshed from its state file after a cancel
\* (it is active again, without the cancel's error), while the other has a
\* handle and a state file that is ahead of the record in memory
C37_Witness ==
  \E a, b \in mapKeys \cap spawned :
    /\ a \in processes
    /\ Readable(disk, a)
    /\ disk[a].status = "downloading"
    /\ stateObj[a].status = "connecting"
    /\ b \notin processes
    /\ IsActive(stateObj[b])
    /\ stateObj[b].error = Unset

\* the fields both the manager's fold and the worker's mirror assign
MirroredFields(s) ==
  [status |-> s.status, progress |-> s.progress, downloaded |-> s.downloaded,
   total |-> s.total, speed |-> s.speed, eta |-> s.eta, peers |-> s.peers,
   filePath |-> s.filePath, error |-> s.error]

\* C38: when the manager has folded every message a worker sent (the worker
\* sent at least one, nothing waits in the stream, no cancel took the handle
\* away), the record in memory and the record the worker wrote last agree
\* on status, progress, downloaded, total, speed, eta, peers, filePath and
\* error.
C38_FoldEqualsMirror ==
  \A id \in (spawned \cap processes) \cap mapKeys :
    (/\ pipe[id] = <<>>
     /\ wphase[id] \in {"ready", "exited"}
     /\ exitCode[id] \in {Running, 0, 1}
     /\ wstate[id] # NoState)
      => MirroredFields(stateObj[id]) = MirroredFields(wstate[id])

\* C39: loadDownloads and refreshOrphaned make a record error "Process ended
\* unexpectedly" (where the state file does not say so itself) only if the
\* record read is connecting or downloading, a pid is stored, and no live
\* process has that pid.
C39_MarkedOnlyWhenProbeFails ==
  [][/\ loadDownloads =>
          \A f \in mapKeys' :
            (Ended(stateObj'[f]) /\ ~Ended(disk[f]))
              => /\ IsActive(disk[f])
                 /\ disk[f].pid # 0
                 /\ disk[f].pid \notin LivePids
     /\ \A id \in mapKeys :
          (refreshOrphaned(id) /\ Ended(stateObj'[id]) /\ ~Ended(disk[id]))
              => /\ IsActive(disk[id])
                 /\ stateObj[id].pid # 0
                 /\ stateObj[id].pid \notin LivePids]_vars

\* C39 witness: loadDownloads has marked a stored active record whose pid is
\* gone, and has left active a stored record without a pid
C39_Witness ==
  /\ pc = "run"
  /\ \E a, b \in mapKeys :
       /\ Ended(stateObj[a])
       /\ Readable(disk, a) /\ IsActive(disk[a]) /\ disk[a].pid # 0
       /\ IsActive(stateObj[b])
       /\ stateObj[b].pid = 0

\* C40: loadDownloads leaves every record the map already has as it is, in
\* the map and without a file operation on its slot, whether it is called
\* first, again, or after a transfer was started.
C40_LoadKeepsKnownRecords ==
  [][loadDownloads =>
       \A id \in mapKeys :
         /\ id \in mapKeys'
         /\ stateObj'[id] = stateObj[id]
         /\ \A op \in pendingIO' \ pendingIO : op.slot # id]_vars

\* C40 witness: loadDownloads was called after a transfer had been started:
\* it has just loaded and marked the record of an earlier session whose
\* worker was gone from the start, beside the record of the started transfer
C40_Witness ==
  \E a \in mapKeys \ spawned, b \in mapKeys \cap spawned :
    /\ Ended(stateObj[a])
    /\ WriteOp(a, stateObj[a]) \in pendingIO
    /\ exitCode[a] = NoCode
    /\ Readable(disk, b)
    /\ stateObj[b].status # disk[b].status

\* C36: a record whose worker process has exited comes to a terminal status
\* and keeps it (or leaves the map), given that main has run, file
\* operations complete and refreshOrphaned is called again and again.
C36_DeadWorkerRecordEnds ==
  \A id \in OldIds :
    [](((id \in mapKeys /\ id \in Workers) /\ wphase[id] = "exited")
         => <>[](id \notin mapKeys \/ IsTerminal(stateObj[id])))

====
